---- MODULE Spec2Model ----
(***************************************************************************)
(* A model of the feedforward network trainer: src/src/network.py          *)
(* (NeuralNetwork), src/src/layers.py (Layer and its subclasses) and       *)
(* src/src/optim.py (GDOptimizer, MomentumOptimizer, NAGOptimizer).        *)
(*                                                                         *)
(* Reals are modelled by integers: every update rule that is modelled is a *)
(* polynomial in weights, gradients and hyperparameters, so the same       *)
(* algebra applies.  A matrix is a sequence of rows, a row a sequence of   *)
(* integers; a vector is a sequence of integers.  A Python exception is    *)
(* the string of its class name.                                           *)
(***************************************************************************)
EXTENDS Integers, Sequences, FiniteSets, TLC

VARIABLES
    net,        \* the NeuralNetwork object: constructed, layerType, cost, layers
    optimizer,  \* NeuralNetwork.optimizer: the attached optimizer object
    pc,         \* position of the caller / of the running train call
    call,       \* arguments of the running train call
    loop,       \* train's locals: epoch, idx, shuffled data and labels, output, cost_grad
    bp,         \* back_prop's locals: layer being back-propagated, grad_in
    last,       \* record of the most recent API call and how it ended
    pre,        \* weights and optimizer when the most recent API call started
    hist,       \* bookkeeping of the running train call (weights at example start, counters)
    calls,      \* number of API calls made so far
    twin        \* two deep copies of one network, stepped by GDOptimizer and MomentumOptimizer

vars == <<net, optimizer, pc, call, loop, bp, last, pre, hist, calls, twin>>

-----------------------------------------------------------------------------
(* Bounds of the model                                                     *)

\* API calls made on a constructed network
MaxCalls == 2
\* optimizer steps taken on the twin networks
MaxTwinSteps == 3
\* a call is made only while every weight, and every weight gradient and
\* accumulator, is at most this large in absolute value
MaxAbsWeight == 20
MaxAbsGrad == 10000

InputSizes == {1}
OutputSizes == {1}
NumHiddens == {1, 2}
NeuronsPerHidden == {2}
\* <<activation, cost, num_hidden>> given to the constructor, and the seed of the
\* random initial weights
CtorArgs == {<<"relu", "mse", 1, 1>>, <<"relu", "mse", 2, 0>>, <<"linear", "mse", 2, 1>>,
             <<"relu", "bogus", 1, 0>>, <<"bogus", "mse", 1, 0>>}
OptimizerArgs == {"sgd", "momentum", "rmsprop", "bogus"}
LearnRates == {0, 1}
MomPars == {1}
Regs == {0, 2}
EpochCounts == {0, 2}
\* <<len(train_data), len(train_output)>>
DataLengths == {<<0, 0>>, <<2, 2>>, <<1, 2>>}
ExampleIds == {1}
Seeds == {0, 1}
GradVals == {1}
TwinGradVals == {0, 1}

-----------------------------------------------------------------------------
(* Vectors and matrices (numpy arrays of one and two dimensions)           *)

RECURSIVE SumTo(_, _)
SumTo(f, n) == IF n = 0 THEN 0 ELSE f[n] + SumTo(f, n - 1)

Rows(M) == Len(M)
Cols(M) == IF Len(M) = 0 THEN 0 ELSE Len(M[1])
Shape(M) == <<Rows(M), Cols(M)>>

Zeros(r, c) == [i \in 1..r |-> [j \in 1..c |-> 0]]
MatSub(A, B) == [i \in 1..Rows(A) |-> [j \in 1..Cols(A) |-> A[i][j] - B[i][j]]]
MatAdd(A, B) == [i \in 1..Rows(A) |-> [j \in 1..Cols(A) |-> A[i][j] + B[i][j]]]
MatScale(k, A) == [i \in 1..Rows(A) |-> [j \in 1..Cols(A) |-> k * A[i][j]]]
\* M[:, :-1]
DropLastCol(M) == [i \in 1..Rows(M) |-> [j \in 1..(Cols(M) - 1) |-> M[i][j]]]
\* np.dot(M[:, :-1], x) + M[:, -1]
Affine(M, x) ==
    [i \in 1..Rows(M) |->
        SumTo([j \in 1..(Cols(M) - 1) |-> M[i][j] * x[j]], Cols(M) - 1) + M[i][Cols(M)]]

-----------------------------------------------------------------------------
(* Layer (src/src/layers.py)                                               *)

\* np.random.randn(num_neurons, num_inputs+1)*init_fact: one sample per seed,
\* with entries of both signs.
RandomWeights(seed, layerNo, r, c) ==
    [i \in 1..r |-> [j \in 1..c |->
        LET v == (seed + layerNo + i + 2 * j) % 3 IN IF v = 0 THEN -1 ELSE v]]

\* Layer.__init__.  _grad_inputs starts as the one-dimensional np.zeros(num_neurons):
\* gradInputsMode "init1d".  "view" is LinearLayer's _grad_inputs = _weights[:, :-1],
\* a numpy view that follows in-place changes of the weights; "own" is an array of
\* its own, held in gradInputs.
LayerNew(kind, numNeurons, numInputs, weights) ==
    [kind |-> kind,
     numNeurons |-> numNeurons,
     weights |-> weights,
     gradInputsMode |-> "init1d",
     gradInputs |-> Zeros(numNeurons, numInputs),
     gradWeights |-> Zeros(numNeurons, numInputs + 1),
     weightGrad |-> Zeros(numNeurons, numInputs + 1)]

\* The value read through self._grad_inputs once a forward pass has set it.
GradInputsOf(layer) ==
    IF layer.gradInputsMode = "view" THEN DropLastCol(layer.weights) ELSE layer.gradInputs

\* The activation and its derivative, from the produced output, of ReLuLayer and
\* LinearLayer (the layer classes the model constructs).
Activate(kind, z) == IF kind = "ReLuLayer" THEN (IF z > 0 THEN z ELSE 0) ELSE z
ActGrad(kind, out) == IF kind = "ReLuLayer" THEN (IF out > 0 THEN 1 ELSE 0) ELSE 1

\* forward_pass of LinearLayer and ReLuLayer: the outputs, and the cached local
\* derivatives.  np.dot raises ValueError when the weight columns do not match the
\* input; the assignment into _grad_weights raises it when the shapes differ.
LayerForward(layer, inputs) ==
    LET W == layer.weights
        n == Rows(W)
        c == Cols(W)
    IN  IF c - 1 # Len(inputs)
        THEN [err |-> "ValueError", out |-> <<>>, layer |-> layer]
        ELSE
        LET pre_ == Affine(W, inputs)
            outs == [i \in 1..n |-> Activate(layer.kind, pre_[i])]
            d == [i \in 1..n |-> ActGrad(layer.kind, outs[i])]
            withGI == IF layer.kind = "LinearLayer"
                      THEN [layer EXCEPT !.gradInputsMode = "view",
                                         !.gradInputs = Zeros(n, c - 1)]
                      ELSE [layer EXCEPT !.gradInputsMode = "own",
                                         !.gradInputs =
                                             [i \in 1..n |-> [j \in 1..(c - 1) |-> d[i] * W[i][j]]]]
        IN  IF Shape(W) # Shape(layer.gradWeights)
            THEN [err |-> "ValueError", out |-> <<>>, layer |-> withGI]
            ELSE [err |-> "none", out |-> outs,
                  layer |-> [withGI EXCEPT !.gradWeights =
                      [i \in 1..n |-> [j \in 1..c |->
                          IF j < c THEN d[i] * inputs[j] ELSE d[i]]]]]

\* Layer.back_propagate.  gradIn is [scalar, v]: the gradient flowing out of a layer
\* whose _grad_inputs is still the one-dimensional initial array is a numpy scalar,
\* and indexing a scalar with [:, np.newaxis] raises IndexError.
LayerBackPropagate(layer, gradIn) ==
    IF gradIn.scalar
    THEN [err |-> "IndexError", out |-> gradIn, layer |-> layer]
    ELSE
    LET g == gradIn.v
        GW == layer.gradWeights
        n == Rows(GW)
        c == Cols(GW)
        GI == GradInputsOf(layer)
        biasGrad == SumTo([i \in 1..n |-> GW[i][c] * g[i]], n)
        outv == IF layer.gradInputsMode = "init1d"
                THEN [scalar |-> TRUE, v |-> <<0>>]
                ELSE [scalar |-> FALSE,
                      v |-> [j \in 1..Cols(GI) |->
                                SumTo([i \in 1..n |-> GI[i][j] * g[i]], n)]]
    IN  [err |-> "none", out |-> outv,
         layer |-> [layer EXCEPT !.weightGrad =
             [i \in 1..n |-> [j \in 1..c |->
                 IF j < c THEN g[i] * GW[i][j] ELSE biasGrad]]]]

-----------------------------------------------------------------------------
(* Optimizers (src/src/optim.py)                                           *)

\* The classes the module src.optim defines.
OptimClasses == {"GDOptimizer", "MomentumOptimizer", "NAGOptimizer", "RMSPROptmizer"}

\* The number of positional arguments, self excluded, each __init__ takes, and the
\* number optimize takes.
InitArity(class) ==
    CASE class = "GDOptimizer" -> 1
      [] class = "MomentumOptimizer" -> 3
      [] class = "NAGOptimizer" -> 3
      [] OTHER -> 1
OptimizeArity == 1

NoOptimizer == [class |-> "None", learnRate |-> 0, momPar |-> 0, momentum |-> <<>>]

\* GDOptimizer.__init__(learn_rate)
GDOptimizerNew(lr) ==
    [class |-> "GDOptimizer", learnRate |-> lr, momPar |-> 0, momentum |-> <<>>]

\* MomentumOptimizer.__init__ / NAGOptimizer.__init__ (learn_rate, mom_par, network):
\* one zero accumulator per layer, of the shape of the layer's weight_grad.
MomentumOptimizerNew(class, lr, mom, layers) ==
    [class |-> class, learnRate |-> lr, momPar |-> mom,
     momentum |-> [i \in 1..Len(layers) |->
                      Zeros(Rows(layers[i].weightGrad), Cols(layers[i].weightGrad))]]

\* layer.weights -= layer._weight_grad * self._learn_rate
GDUpdateIgnoringRate(W, grad, lr) == MatSub(W, grad)
GDUpdate(W, grad, lr) == MatSub(W, MatScale(lr, grad))

\* GDOptimizer.optimize(network): the first layer's weights are updated in place
\* (numpy raises ValueError when the gradient cannot be broadcast to them), then
\* layer.biases is read, an attribute no Layer has: AttributeError.
GDOptimize(opt, layers) ==
    IF Len(layers) = 0
    THEN [err |-> "none", layers |-> layers, opt |-> opt]
    ELSE IF Shape(layers[1].weights) # Shape(layers[1].weightGrad)
    THEN [err |-> "ValueError", layers |-> layers, opt |-> opt]
    ELSE [err |-> "AttributeError",
          layers |-> [layers EXCEPT ![1].weights =
                         GDUpdate(layers[1].weights, layers[1].weightGrad, opt.learnRate)],
          opt |-> opt]

\* MomentumOptimizer.optimize(network), layers idx..end: the accumulator is
\* reassigned, then added to the weights in place.
RECURSIVE MomentumOptimizeFrom(_, _, _)
MomentumOptimizeFrom(opt, layers, idx) ==
    IF idx > Len(layers)
    THEN [err |-> "none", layers |-> layers, opt |-> opt]
    ELSE
    LET m == MatSub(MatScale(opt.momPar, opt.momentum[idx]),
                    MatScale(opt.learnRate, layers[idx].weightGrad))
        opt2 == [opt EXCEPT !.momentum[idx] = m]
    IN  IF Shape(layers[idx].weights) # Shape(m)
        THEN [err |-> "ValueError", layers |-> layers, opt |-> opt2]
        ELSE MomentumOptimizeFrom(opt2,
                 [layers EXCEPT ![idx].weights = MatAdd(layers[idx].weights, m)], idx + 1)

\* NAGOptimizer.optimize(network), layers idx..end.
RECURSIVE NAGOptimizeFrom(_, _, _)
NAGOptimizeFrom(opt, layers, idx) ==
    IF idx > Len(layers)
    THEN [err |-> "none", layers |-> layers, opt |-> opt]
    ELSE
    LET prev == opt.momentum[idx]
        m == MatAdd(MatScale(opt.momPar, prev),
                    MatScale(opt.learnRate, layers[idx].weightGrad))
        opt2 == [opt EXCEPT !.momentum[idx] = m]
        step == MatAdd(MatScale(opt.momPar, prev), MatScale(1 + opt.momPar, m))
    IN  IF Shape(layers[idx].weights) # Shape(m)
        THEN [err |-> "ValueError", layers |-> layers, opt |-> opt2]
        ELSE NAGOptimizeFrom(opt2,
                 [layers EXCEPT ![idx].weights = MatSub(layers[idx].weights, step)], idx + 1)

\* opt.optimize(*args): a call with the wrong number of arguments raises TypeError
\* before the body runs; None has no optimize.
OptimizerOptimize(opt, nargs, layers) ==
    IF opt.class = "None"
    THEN [err |-> "AttributeError", layers |-> layers, opt |-> opt]
    ELSE IF nargs # OptimizeArity
    THEN [err |-> "TypeError", layers |-> layers, opt |-> opt]
    ELSE CASE opt.class = "GDOptimizer" -> GDOptimize(opt, layers)
           [] opt.class = "MomentumOptimizer" -> MomentumOptimizeFrom(opt, layers, 1)
           [] OTHER -> NAGOptimizeFrom(opt, layers, 1)

-----------------------------------------------------------------------------
(* NeuralNetwork (src/src/network.py)                                      *)

\* _set_activation: the layer class, or None: the ValueError of the last branch is
\* constructed but not raised.
SetActivation(layer_type) ==
    CASE layer_type = "linear" -> "LinearLayer"
      [] layer_type = "relu" -> "ReLuLayer"
      [] layer_type = "tanh" -> "TanhLayer"
      [] layer_type = "sigmoid" -> "SigmoidLayer"
      [] OTHER -> "None"

\* _set_cost: the cost function, or None when no branch matches.
SetCost(cost) == IF cost \in {"mse", "svm", "ce", "expc"} THEN cost ELSE "None"

\* The layers __init__ builds: the first hidden layer, num_hidden-1 more, and the
\* linear output layer.
RECURSIVE HiddenLayers(_, _, _, _, _)
HiddenLayers(layers, more, kind, nph, seed) ==
    IF more <= 0 THEN layers
    ELSE LET numIn == layers[Len(layers)].numNeurons
             no == Len(layers) + 1
         IN  HiddenLayers(
                 Append(layers, LayerNew(kind, nph, numIn, RandomWeights(seed, no, nph, numIn + 1))),
                 more - 1, kind, nph, seed)

BuildLayers(kind, input_size, output_size, num_hidden, nph, seed) ==
    LET first == LayerNew(kind, nph, input_size, RandomWeights(seed, 1, nph, input_size + 1))
        hidden == HiddenLayers(<<first>>, num_hidden - 1, kind, nph, seed)
        numIn == hidden[Len(hidden)].numNeurons
    IN  Append(hidden, LayerNew("LinearLayer", output_size, numIn,
                                RandomWeights(seed, Len(hidden) + 1, output_size, numIn + 1)))

\* args are the names and sizes the constructor was called with.
NoNetwork == [constructed |-> FALSE, layerType |-> "None", cost |-> "None",
              args |-> [activation |-> "none", cost |-> "none", input_size |-> 0,
                        output_size |-> 0, num_hidden |-> 0, neurons_per_hidden |-> 0],
              layers |-> <<>>]

\* forward_pass: the layers in order, from layer k on.
RECURSIVE NetForwardFrom(_, _, _)
NetForwardFrom(layers, k, x) ==
    IF k > Len(layers)
    THEN [err |-> "none", out |-> x, layers |-> layers]
    ELSE LET r == LayerForward(layers[k], x)
             layers2 == [layers EXCEPT ![k] = r.layer]
         IN  IF r.err # "none"
             THEN [err |-> r.err, out |-> <<>>, layers |-> layers2]
             ELSE NetForwardFrom(layers2, k + 1, r.out)

\* layer.weights -= reg*layer.weights
DecayWeightsNever(W, reg) == W
DecayWeightsAlways(W, reg) == MatSub(W, W)
DecayWeights(W, reg) == MatSub(W, MatScale(reg, W))

\* One iteration of back_prop's loop over reversed(self._layers).
BackPropLayer(layers, k, gradIn, reg) ==
    LET r == LayerBackPropagate(layers[k], gradIn)
    IN  IF r.err # "none"
        THEN [err |-> r.err, out |-> gradIn, layers |-> layers]
        ELSE [err |-> "none", out |-> r.out,
              layers |-> [layers EXCEPT ![k] =
                  [r.layer EXCEPT !.weights = DecayWeights(r.layer.weights, reg)]]]

\* _set_optimizer: the class looked up in src.optim and called with the arguments
\* network.py passes (lr, self for GDOptimizer).
SetOptimizer(name, lr, mom, nesterov, layers) ==
    LET class == CASE name = "sgd" -> "GDOptimizer"
                   [] name = "momentum" -> IF nesterov THEN "NAGOptimizer" ELSE "MomentumOptimizer"
                   [] name = "rmsprop" -> "RMSpropOptmizer"
                   [] name = "adagrad" -> "AdaGradOptimizer"
                   [] name = "adadelta" -> "AdaDeltaOptimizer"
                   [] name = "adam" -> "AdamOptimizer"
                   [] name = "nadam" -> "NadamOptimizer"
                   [] OTHER -> "None"
        nargs == CASE class = "GDOptimizer" -> 2
                   [] class \in {"AdaGradOptimizer", "AdaDeltaOptimizer"} -> 2
                   [] class \in {"AdamOptimizer", "NadamOptimizer"} -> 4
                   [] OTHER -> 3
    IN  IF class = "None" THEN [err |-> "ValueError", opt |-> NoOptimizer]
        ELSE IF class \notin OptimClasses THEN [err |-> "AttributeError", opt |-> NoOptimizer]
        ELSE IF nargs # InitArity(class) THEN [err |-> "TypeError", opt |-> NoOptimizer]
        ELSE [err |-> "none",
              opt |-> IF class = "GDOptimizer" THEN GDOptimizerNew(lr)
                      ELSE MomentumOptimizerNew(class, lr, mom, layers)]

\* set_weights: the length is asserted, then every layer's weights are rebound.  A
\* LinearLayer's _grad_inputs keeps viewing the array that was replaced.
SetWeights(layers, weights_list) ==
    [i \in 1..Len(layers) |->
        [layers[i] EXCEPT !.weights = weights_list[i],
                          !.gradInputs = GradInputsOf(layers[i]),
                          !.gradInputsMode = IF @ = "view" THEN "own" ELSE @]]

\* The cost functions src.models provides: mean squared error's gradient.
CostGrad(costFn, output, target) == [i \in 1..Len(output) |-> output[i] - target[i]]

WeightsOf(layers) == [i \in 1..Len(layers) |-> layers[i].weights]

\* The attributes class NeuralNetwork defines.
NetworkAttributes == {"train", "validate", "forward_pass", "save_weights", "read_weights",
                      "set_weights", "back_prop", "layers", "shuffle_train_data",
                      "cost", "cost_grad", "optimizer"}

-----------------------------------------------------------------------------
(* The caller's data                                                       *)

\* Example and label number id of the caller's data set, as vectors.
Example(id, inputSize) == [j \in 1..inputSize |-> id]
Label(id, outputSize) == [j \in 1..outputSize |-> 0 - id]

IndexPermutations(n) == {p \in [1..n -> 1..n] : \A i, j \in 1..n : i # j => p[i] # p[j]}

\* Weight lists a caller passes to set_weights: network.layers' own matrices, fresh
\* matrices of the right shapes, a list one short, and a list whose first matrix has
\* one column too many.
WeightLists(layers) ==
    LET L == Len(layers)
        same == WeightsOf(layers)
        other == [i \in 1..L |-> [r \in 1..Rows(layers[i].gradWeights) |->
                                     [c \in 1..Cols(layers[i].gradWeights) |-> 2]]]
        short == [i \in 1..(L - 1) |-> other[i]]
        wide == [other EXCEPT ![1] = [r \in 1..Rows(other[1]) |-> Append(other[1][r], 2)]]
    IN  {same, other, short, wide}

NoCall == [optimizer |-> "none", lr |-> 0, mom |-> 0, nesterov |-> FALSE, reg |-> 0,
           epochs |-> 0, nData |-> 0, nLabels |-> 0]
NoLoop == [epoch |-> 0, idx |-> 0, data |-> <<>>, labels |-> <<>>,
           output |-> <<>>, costGrad |-> <<>>]
NoBp == [layer |-> 0, gradIn |-> [scalar |-> FALSE, v |-> <<>>], reg |-> 0, caller |-> "none"]
NoHist == [wStart |-> <<>>, steps |-> 0, seen |-> <<>>, epochsDone |-> 0, paired |-> TRUE]
NoTwin == [a |-> <<>>, b |-> <<>>, gdA |-> NoOptimizer, momB |-> NoOptimizer,
           errA |-> "none", errB |-> "none", steps |-> 0, fed |-> FALSE]

Init ==
    /\ net = NoNetwork
    /\ optimizer = NoOptimizer
    /\ pc = "idle"
    /\ call = NoCall
    /\ loop = NoLoop
    /\ bp = NoBp
    /\ last = [op |-> "none", result |-> "none", attach |-> "none"]
    /\ pre = [weights |-> <<>>, optimizer |-> NoOptimizer]
    /\ hist = NoHist
    /\ calls = 0
    /\ twin = NoTwin

MatWithin(M, b) == \A i \in 1..Rows(M) : \A j \in 1..Cols(M) : M[i][j] \in (0 - b)..b
InRange ==
    /\ \A i \in 1..Len(net.layers) :
           /\ MatWithin(net.layers[i].weights, MaxAbsWeight)
           /\ MatWithin(net.layers[i].weightGrad, MaxAbsGrad)
    /\ \A i \in 1..Len(optimizer.momentum) : MatWithin(optimizer.momentum[i], MaxAbsGrad)

\* What every API call records as it starts.
Begin(op) ==
    /\ pc = "idle"
    /\ calls < MaxCalls
    /\ InRange
    /\ calls' = IF op = "__init__" THEN calls ELSE calls + 1
    /\ pre' = [weights |-> WeightsOf(net.layers), optimizer |-> optimizer]

\* The call returns or raises: control is back with the caller.
Finish(op, result, attach) ==
    /\ pc' = "idle"
    /\ last' = [op |-> op, result |-> result, attach |-> attach]
    /\ loop' = NoLoop
    /\ bp' = NoBp

\* NeuralNetwork.__init__
Construct ==
    \E input_size \in InputSizes, output_size \in OutputSizes, nph \in NeuronsPerHidden,
       args \in CtorArgs :
        /\ ~net.constructed
        /\ Begin("__init__")
        /\ LET activation == args[1]
               cost == args[2]
               num_hidden == args[3]
               seed == args[4]
               layerType == SetActivation(activation)
           IN  IF layerType = "None"
               THEN /\ Finish("__init__", "TypeError", "none")
                    /\ UNCHANGED net
               ELSE /\ Finish("__init__", "ok", "none")
                    /\ net' = [constructed |-> TRUE, layerType |-> layerType,
                               cost |-> SetCost(cost),
                               args |-> [activation |-> activation, cost |-> cost,
                                         input_size |-> input_size,
                                         output_size |-> output_size,
                                         num_hidden |-> num_hidden,
                                         neurons_per_hidden |-> nph],
                               layers |-> BuildLayers(layerType, input_size, output_size,
                                                      num_hidden, nph, seed)]
        /\ call' = NoCall
        /\ UNCHANGED <<optimizer, hist, twin>>

\* train, line 38: self._set_optimizer(...).  An exception ends the call; otherwise
\* the optimizer is attached and the epoch loop is entered.
TrainCall ==
    \E opt \in OptimizerArgs, lr \in LearnRates, mom \in MomPars, nesterov \in BOOLEAN,
       reg \in Regs, epochs \in EpochCounts, lens \in DataLengths :
        /\ net.constructed
        /\ Begin("train")
        \* nesterov is read by the momentum branch only; the optimizers whose class
        \* lookup fails are called with one learning rate and one reg
        /\ (opt # "momentum" => ~nesterov)
        /\ (opt \notin {"sgd", "momentum"} => (lr = 1 /\ reg = 0))
        /\ LET r == SetOptimizer(opt, lr, mom, nesterov, net.layers)
           IN  IF r.err # "none"
               THEN /\ Finish("train", r.err, r.err)
                    /\ UNCHANGED optimizer
               ELSE /\ optimizer' = r.opt
                    /\ pc' = "epoch"
                    /\ last' = [op |-> "train", result |-> "running", attach |-> "attached"]
                    /\ loop' = [NoLoop EXCEPT !.data = [i \in 1..lens[1] |-> i],
                                              !.labels = [i \in 1..lens[2] |-> i]]
                    /\ bp' = NoBp
        /\ call' = [optimizer |-> opt, lr |-> lr, mom |-> mom, nesterov |-> nesterov,
                    reg |-> reg, epochs |-> epochs, nData |-> lens[1], nLabels |-> lens[2]]
        /\ hist' = NoHist
        /\ UNCHANGED <<net, twin>>

\* train, line 41 with the range exhausted, and lines 54-59 with save=False and
\* quiet=True: the call returns.
TrainReturn ==
    /\ pc = "epoch"
    /\ loop.epoch = call.epochs
    /\ Finish("train", "ok", last.attach)
    /\ UNCHANGED <<net, optimizer, call, pre, hist, calls, twin>>

\* train, lines 41-43: the next epoch starts with shuffle_train_data, which asserts
\* equal lengths and applies one permutation to both arrays.
ShuffleTrainData ==
    /\ pc = "epoch"
    /\ loop.epoch < call.epochs
    /\ IF Len(loop.data) # Len(loop.labels)
       THEN /\ Finish("train", "AssertionError", last.attach)
            /\ UNCHANGED hist
       ELSE \E p \in IndexPermutations(Len(loop.data)) :
            /\ loop' = [loop EXCEPT !.data = [k \in 1..Len(loop.data) |-> loop.data[p[k]]],
                                    !.labels = [k \in 1..Len(loop.labels) |-> loop.labels[p[k]]],
                                    !.idx = 0]
            /\ pc' = "example"
            /\ hist' = [hist EXCEPT !.seen = <<>>]
            /\ UNCHANGED <<last, bp>>
    /\ UNCHANGED <<net, optimizer, call, pre, calls, twin>>

\* train, line 44 with the examples exhausted: the epoch is over.
EpochEnd ==
    /\ pc = "example"
    /\ loop.idx = Len(loop.data)
    /\ loop' = [loop EXCEPT !.epoch = @ + 1]
    /\ hist' = [hist EXCEPT !.epochsDone = @ + 1]
    /\ pc' = "epoch"
    /\ UNCHANGED <<net, optimizer, call, bp, last, pre, calls, twin>>

\* train, lines 44-46: the next example is passed forward through the network.
TrainForward ==
    /\ pc = "example"
    /\ loop.idx < Len(loop.data)
    /\ LET r == NetForwardFrom(net.layers, 1,
                               Example(loop.data[loop.idx + 1], net.args.input_size))
       IN  /\ net' = [net EXCEPT !.layers = r.layers]
           /\ IF r.err # "none"
              THEN /\ Finish("train", r.err, last.attach)
                   /\ UNCHANGED hist
              ELSE /\ loop' = [loop EXCEPT !.output = r.out]
                   /\ pc' = "cost"
                   /\ hist' = [hist EXCEPT !.wStart = WeightsOf(net.layers),
                                           !.seen = Append(@, loop.data[loop.idx + 1]),
                                           !.paired = @ /\ (loop.data[loop.idx + 1]
                                                            = loop.labels[loop.idx + 1])]
                   /\ UNCHANGED <<last, bp>>
    /\ UNCHANGED <<optimizer, call, pre, calls, twin>>

\* train, lines 47-52 up to the call of back_prop: self.cost is called (None is not
\* callable: TypeError); the regularization term goes into the reported cost only.
TrainCost ==
    /\ pc = "cost"
    /\ IF net.cost = "None"
       THEN Finish("train", "TypeError", last.attach)
       ELSE LET g == CostGrad(net.cost, loop.output,
                              Label(loop.labels[loop.idx + 1], net.args.output_size))
            IN
            /\ loop' = [loop EXCEPT !.costGrad = g]
            /\ bp' = [layer |-> Len(net.layers),
                      gradIn |-> [scalar |-> FALSE, v |-> g],
                      reg |-> call.reg, caller |-> "train"]
            /\ pc' = "backprop"
            /\ UNCHANGED last
    /\ UNCHANGED <<net, optimizer, call, pre, hist, calls, twin>>

\* back_prop, lines 161-164, one layer of reversed(self._layers); after the first
\* layer the call returns: to train's line 53, or to the caller.
BackPropStep ==
    /\ pc = "backprop"
    /\ LET r == BackPropLayer(net.layers, bp.layer, bp.gradIn, bp.reg)
           op == IF bp.caller = "train" THEN "train" ELSE "back_prop"
       IN  /\ net' = [net EXCEPT !.layers = r.layers]
           /\ IF r.err # "none"
              THEN Finish(op, r.err, last.attach)
              ELSE IF bp.layer > 1
              THEN /\ bp' = [bp EXCEPT !.layer = @ - 1, !.gradIn = r.out]
                   /\ UNCHANGED <<pc, last, loop>>
              ELSE IF bp.caller = "train"
              THEN /\ pc' = "optimize"
                   /\ bp' = NoBp
                   /\ UNCHANGED <<last, loop>>
              ELSE Finish(op, "ok", last.attach)
    /\ UNCHANGED <<optimizer, call, pre, hist, calls, twin>>

\* train, line 53: self.optimizer.optimize(), called without the network argument.
TrainOptimize ==
    /\ pc = "optimize"
    /\ LET r == OptimizerOptimize(optimizer, 0, net.layers)
       IN  /\ net' = [net EXCEPT !.layers = r.layers]
           /\ optimizer' = r.opt
           /\ IF r.err # "none"
              THEN /\ Finish("train", r.err, last.attach)
                   /\ UNCHANGED hist
              ELSE /\ loop' = [loop EXCEPT !.idx = @ + 1]
                   /\ hist' = [hist EXCEPT !.steps = @ + 1]
                   /\ pc' = "example"
                   /\ UNCHANGED <<last, bp>>
    /\ UNCHANGED <<call, pre, calls, twin>>

\* network.forward_pass(example), called by the user.
CallForwardPass ==
    \E id \in ExampleIds :
        /\ net.constructed
        /\ Begin("forward_pass")
        /\ LET r == NetForwardFrom(net.layers, 1, Example(id, net.args.input_size))
           IN  /\ net' = [net EXCEPT !.layers = r.layers]
               /\ Finish("forward_pass", IF r.err = "none" THEN "ok" ELSE r.err, last.attach)
        /\ hist' = NoHist
        /\ call' = NoCall
        /\ UNCHANGED <<optimizer, twin>>

\* network.back_prop(cost_grad, reg), called by the user: the loop is entered at the
\* last layer.
CallBackProp ==
    \E g \in GradVals, reg \in Regs :
        /\ net.constructed
        /\ Begin("back_prop")
        /\ pc' = "backprop"
        /\ bp' = [layer |-> Len(net.layers),
                  gradIn |-> [scalar |-> FALSE, v |-> [j \in 1..net.args.output_size |-> g]],
                  reg |-> reg, caller |-> "user"]
        /\ last' = [op |-> "back_prop", result |-> "running", attach |-> last.attach]
        /\ hist' = NoHist
        /\ call' = [NoCall EXCEPT !.reg = reg]
        /\ loop' = NoLoop
        /\ UNCHANGED <<net, optimizer, twin>>

\* network.set_weights(weights_list), called by the user.
CallSetWeights ==
    /\ net.constructed
    /\ \E wl \in WeightLists(net.layers) :
        /\ Begin("set_weights")
        /\ IF Len(wl) # Len(net.layers)
           THEN /\ Finish("set_weights", "AssertionError", last.attach)
                /\ UNCHANGED net
           ELSE /\ Finish("set_weights", "ok", last.attach)
                /\ net' = [net EXCEPT !.layers = SetWeights(net.layers, wl)]
        /\ hist' = NoHist
        /\ call' = NoCall
        /\ UNCHANGED <<optimizer, twin>>

\* network.get_weights(), called by the user: the attribute is looked up.
CallGetWeights ==
    /\ net.constructed
    /\ Begin("get_weights")
    /\ Finish("get_weights",
              IF "get_weights" \in NetworkAttributes THEN "ok" ELSE "AttributeError",
              last.attach)
    /\ hist' = NoHist
    /\ call' = NoCall
    /\ UNCHANGED <<net, optimizer, twin>>

\* network.optimizer.optimize(network), called by the user on the attached optimizer.
CallOptimize ==
    /\ net.constructed
    /\ Begin("optimize")
    /\ LET r == OptimizerOptimize(optimizer, 1, net.layers)
       IN  /\ net' = [net EXCEPT !.layers = r.layers]
           /\ optimizer' = r.opt
           /\ Finish("optimize", IF r.err = "none" THEN "ok" ELSE r.err, last.attach)
    /\ hist' = NoHist
    /\ call' = [NoCall EXCEPT !.optimizer = optimizer.class, !.lr = optimizer.learnRate,
                              !.mom = optimizer.momPar]
    /\ UNCHANGED twin

\* opt.GDOptimizer(lr).optimize(network), called by the user.
CallGDOptimize ==
    \E lr \in LearnRates :
        /\ net.constructed
        /\ Begin("optimize")
        /\ LET r == OptimizerOptimize(GDOptimizerNew(lr), 1, net.layers)
           IN  /\ net' = [net EXCEPT !.layers = r.layers]
               /\ Finish("optimize", IF r.err = "none" THEN "ok" ELSE r.err, last.attach)
        /\ hist' = NoHist
        /\ call' = [NoCall EXCEPT !.optimizer = "GDOptimizer", !.lr = lr]
        /\ UNCHANGED <<optimizer, twin>>

Next ==
    \/ Construct
    \/ TrainCall
    \/ TrainReturn
    \/ ShuffleTrainData
    \/ EpochEnd
    \/ TrainForward
    \/ TrainCost
    \/ BackPropStep
    \/ TrainOptimize
    \/ CallForwardPass
    \/ CallBackProp
    \/ CallSetWeights
    \/ CallGetWeights
    \/ CallOptimize
    \/ CallGDOptimize

Spec == Init /\ [][Next]_vars

-----------------------------------------------------------------------------
(* Two deep copies of one network (as examples/optimization_compare.py     *)
(* makes them), one stepped by GDOptimizer and one by MomentumOptimizer    *)
(* with mom_par = 0, both with the same learning rate and fed the same     *)
(* per-layer gradients.                                                    *)

InitTwin ==
    /\ net = NoNetwork
    /\ optimizer = NoOptimizer
    /\ pc = "idle"
    /\ call = NoCall
    /\ loop = NoLoop
    /\ bp = NoBp
    /\ last = [op |-> "none", result |-> "none", attach |-> "none"]
    /\ pre = [weights |-> <<>>, optimizer |-> NoOptimizer]
    /\ hist = NoHist
    /\ calls = 0
    /\ \E num_hidden \in NumHiddens, nph \in NeuronsPerHidden, seed \in Seeds,
          lr \in LearnRates, input_size \in InputSizes, output_size \in OutputSizes :
          LET layers == BuildLayers("ReLuLayer", input_size, output_size, num_hidden, nph, seed)
          IN  twin = [a |-> layers, b |-> layers,
                      gdA |-> GDOptimizerNew(lr),
                      momB |-> MomentumOptimizerNew("MomentumOptimizer", lr, 0, layers),
                      errA |-> "none", errB |-> "none", steps |-> 0, fed |-> FALSE]

\* Both copies back-propagate to the same per-layer weight gradients.
TwinFeed ==
    \E g \in [1..Len(twin.a) -> TwinGradVals] :
        /\ twin.steps < MaxTwinSteps
        /\ ~twin.fed
        /\ LET feed(layers) ==
                   [i \in 1..Len(layers) |->
                       [layers[i] EXCEPT !.weightGrad =
                           [r \in 1..Rows(@) |-> [c \in 1..Cols(@) |-> g[i]]]]]
           IN  twin' = [twin EXCEPT !.a = feed(twin.a), !.b = feed(twin.b), !.fed = TRUE]
        /\ UNCHANGED <<net, optimizer, pc, call, loop, bp, last, pre, hist, calls>>

\* optimize(network) on each copy with its own optimizer.
TwinStep ==
    /\ twin.fed
    /\ LET ra == OptimizerOptimize(twin.gdA, 1, twin.a)
           rb == OptimizerOptimize(twin.momB, 1, twin.b)
       IN  twin' = [twin EXCEPT !.a = ra.layers, !.b = rb.layers,
                                !.gdA = ra.opt, !.momB = rb.opt,
                                !.errA = ra.err, !.errB = rb.err,
                                !.steps = @ + 1, !.fed = FALSE]
    /\ UNCHANGED <<net, optimizer, pc, call, loop, bp, last, pre, hist, calls>>

NextTwin ==
    \/ TwinFeed
    \/ TwinStep

SpecTwin == InitTwin /\ [][NextTwin]_vars

-----------------------------------------------------------------------------
(* Properties                                                              *)

Weights == WeightsOf(net.layers)
KnownActivations == {"linear", "relu", "sigmoid", "tanh"}
KnownCosts == {"mse", "ce", "svm", "expc"}
SupportedOptimizers == {"sgd", "momentum", "adagrad", "adadelta", "rmsprop", "adam", "nadam"}
Exceptions == {"ValueError", "TypeError", "AttributeError", "AssertionError", "IndexError"}
InTrain == last.op = "train" /\ last.result = "running"
TrainEnded == last.op = "train" /\ last.result # "running"
\* The matrices ws have the shapes the network was built with.
TopologyShapes(ws) ==
    /\ Len(ws) = Len(net.layers)
    /\ \A i \in 1..Len(ws) : Shape(ws[i]) = Shape(net.layers[i].gradWeights)

\* C1 as stated: in train, an example's weight decay is applied only after that
\* example's optimizer step: while back_prop runs over the layers, and when train
\* is about to call Optimizer.optimize(), no layer has been decayed yet, so the
\* weights are still those the example's forward pass started from.
C1_DecayAfterOptimizerStep ==
    (InTrain /\ pc \in {"backprop", "optimize"}) => Weights = hist.wStart

\* C1 amended: in train, an example's weight decay is applied inside back_prop: each
\* layer, from the last to the first, is back-propagated and at once replaced by
\* weights - reg*weights = (1 - reg)*weights, before the layer below it is
\* back-propagated; when train calls Optimizer.optimize() every layer has been
\* decayed already.
C1_DecayInsideBackProp ==
    /\ (InTrain /\ pc = "backprop") =>
           \A i \in 1..Len(net.layers) :
               Weights[i] = IF i > bp.layer THEN MatScale(1 - call.reg, hist.wStart[i])
                            ELSE hist.wStart[i]
    /\ (InTrain /\ pc = "optimize") =>
           \A i \in 1..Len(net.layers) : Weights[i] = MatScale(1 - call.reg, hist.wStart[i])

\* C1's case: train is about to call optimize() for an example, the decay is on
\* (reg # 0) and it has changed the weights.
C1_Witness ==
    InTrain /\ pc = "optimize" /\ call.reg # 0 /\ Weights # hist.wStart

\* C2: an unknown activation or cost name never yields a constructed network, and
\* a train call with an unknown optimizer name ends with an exception before any
\* training step.
C2_UnknownNamesRejected ==
    /\ net.constructed =>
           (net.args.activation \in KnownActivations /\ net.args.cost \in KnownCosts)
    /\ (last.op = "train" /\ call.optimizer \notin SupportedOptimizers) =>
           (last.result \in Exceptions /\ pc = "idle" /\ Weights = pre.weights)

\* C3: train with data and labels of different lengths ends with an exception and
\* leaves the weights and the attached optimizer as they were; set_weights never
\* installs a list whose per-layer shapes differ from the topology.
C3_ShapeMismatchRejected ==
    /\ (last.op = "train" /\ call.nData # call.nLabels) =>
           /\ last.result # "ok"
           /\ Weights = pre.weights
           /\ optimizer = pre.optimizer
    /\ (last.op = "set_weights" /\ last.result = "ok") =>
           \A i \in 1..Len(net.layers) :
               Shape(net.layers[i].weights) = Shape(net.layers[i].gradWeights)
    /\ (last.op = "set_weights" /\ last.result # "ok") => Weights = pre.weights

\* C4: every train call with a supported optimizer kind, on a network whose weights
\* have the shapes it was built with, attaches an optimizer, and
\* right after the attach its accumulator list has one all-zero entry per layer, of
\* the shape of that layer's weights.
C4_FreshOptimizerAttached ==
    (last.op = "train" /\ call.optimizer \in SupportedOptimizers
        /\ TopologyShapes(pre.weights)) =>
        /\ last.attach = "attached"
        /\ (pc = "epoch" /\ loop.epoch = 0) =>
               /\ Len(optimizer.momentum) = Len(net.layers)
               /\ \A i \in 1..Len(net.layers) :
                      optimizer.momentum[i] = Zeros(Rows(Weights[i]), Cols(Weights[i]))

C6_MomentumZeroIsSgd ==
    twin.steps > 0 => WeightsOf(twin.a) = WeightsOf(twin.b)

\* C7: get_weights returns the ordered list of the per-layer weight matrices (so
\* that set_weights(get_weights()) can be evaluated at all).
C7_GetWeightsReturnsList ==
    last.op = "get_weights" => last.result = "ok"

\* C8: a train call with valid names, on a network whose weights have the shapes it
\* was built with, with data and labels of equal length N, and whose optimizer
\* was attached, returns normally after E epochs, each example having been
\* processed with its own label, with E*N optimizer steps in total.
C8_TrainRunsAllEpochs ==
    (/\ TrainEnded
     /\ call.optimizer \in SupportedOptimizers
     /\ last.attach = "attached"
     /\ net.cost # "None"
     /\ TopologyShapes(pre.weights)
     /\ call.nData = call.nLabels) =>
        /\ last.result = "ok"
        /\ hist.epochsDone = call.epochs
        /\ hist.steps = call.epochs * call.nData
        /\ hist.paired

\* C9: in every state of a constructed network the number of layers is the one
\* built, layer i's weights have shape (neurons of layer i, neurons of layer i-1 + 1)
\* with the first layer's inputs input_size, and the last layer has output_size
\* neurons.
C9_ShapeInvariant ==
    net.constructed =>
        LET L == Len(net.layers)
            n(i) == IF i = 0 THEN net.args.input_size ELSE net.layers[i].numNeurons
        IN  /\ L = (IF net.args.num_hidden > 1 THEN net.args.num_hidden ELSE 1) + 1
            /\ n(L) = net.args.output_size
            /\ \A i \in 1..L : Shape(net.layers[i].weights) = <<n(i), n(i - 1) + 1>>

\* C10 as stated: forward_pass, the cost evaluation and back_prop, for any reg,
\* leave every layer's weights unchanged: in train the weights stay those of the
\* example's start until the optimizer is called, and a forward_pass or back_prop
\* call by the user leaves the weights it found.
C10_OnlyOptimizerMutatesWeights ==
    /\ (InTrain /\ pc \in {"cost", "backprop", "optimize"}) => Weights = hist.wStart
    /\ last.op \in {"forward_pass", "back_prop"} => Weights = pre.weights

\* C10 amended: forward_pass and the cost evaluation leave every layer's weights
\* unchanged, and so does back_prop when reg = 0 (with reg # 0 back_prop replaces
\* the weights of each layer it back-propagates by weights - reg*weights).
C10_WeightsKeptUnlessDecay ==
    /\ (InTrain /\ pc = "cost") => Weights = hist.wStart
    /\ (InTrain /\ pc \in {"backprop", "optimize"} /\ call.reg = 0) => Weights = hist.wStart
    /\ last.op = "forward_pass" => Weights = pre.weights
    /\ (last.op = "back_prop" /\ call.reg = 0) => Weights = pre.weights

\* C10's case: a back_prop call with reg = 0 has run through all layers of a
\* network with non-zero weights and has written a non-zero weight gradient.
C10_Witness ==
    /\ last.op = "back_prop" /\ last.result = "ok" /\ call.reg = 0
    /\ \E i \in 1..Len(net.layers) :
           /\ net.layers[i].weightGrad # Zeros(Rows(net.layers[i].weightGrad),
                                               Cols(net.layers[i].weightGrad))
           /\ Weights[i] # Zeros(Rows(Weights[i]), Cols(Weights[i]))

====
